---------------------------- MODULE Spec2Model ----------------------------
(***************************************************************************)
(* Model of movingsign.py: the MovingSign class, an encoder of command     *)
(* frames of the "Moving Sign" protocol V1.2.  A byte string (a Python 2   *)
(* str or a bytearray) is a sequence of byte values 0..255.  One action    *)
(* per method call on one MovingSign instance.                             *)
(***************************************************************************)
EXTENDS Integers, Sequences, FiniteSets, TLC

VARIABLES
    sdr_addr, rcv_addr, filename, display_mode, display_speed, pause_time,
    show_date, start_time, stop_time, prep, align, header,   \* instance fields
    tables,     \* the six class-level dicts
    call,       \* the most recent call: its method name and arguments
    result,     \* what that call returned (or the exception it raised)
    passed,     \* history: the value most recently given for each settable field
    fresh,      \* history: no setter has been called since construction
    repeat      \* history: the most recent call repeats the call before it

session == <<sdr_addr, rcv_addr, filename, display_mode, display_speed,
             pause_time, show_date, start_time, stop_time, prep, align, header>>

vars == <<sdr_addr, rcv_addr, filename, display_mode, display_speed, pause_time,
          show_date, start_time, stop_time, prep, align, header,
          tables, call, result, passed, fresh, repeat>>

(***************************************************************************)
(* Bounds of the model.                                                    *)
(***************************************************************************)
\* longest payload enumerated over PayloadBytes
MaxDataLen == 2
\* number of 0xFF bytes in the large message (257 * 255 = 0xFFFF)
LongLen == 257

(***************************************************************************)
(* Byte literals.                                                          *)
(***************************************************************************)
\* the characters '0' (48) .. 'Z' (90) in ASCII order
AsciiTable == <<"0", "1", "2", "3", "4", "5", "6", "7", "8", "9",
                ":", ";", "<", "=", ">", "?", "@",
                "A", "B", "C", "D", "E", "F", "G", "H", "I", "J", "K", "L", "M",
                "N", "O", "P", "Q", "R", "S", "T", "U", "V", "W", "X", "Y", "Z">>

\* the byte value of a one-character literal
Ord(c) == 47 + (CHOOSE i \in 1..Len(AsciiTable) : AsciiTable[i] = c)

\* the bytes of a literal, given as the sequence of its characters
B(s) == [i \in 1..Len(s) |-> Ord(s[i])]

NUL == 0
SOH == 1
STX == 2
ETX == 3
EOT == 4
FONT_VAL == 254
COLOR_VAL == 253

CMD_WRITE_TXT == B(<<"A">>)
CMD_WRITE_VAR == B(<<"C">>)
CMD_WRITE_GFX == B(<<"E">>)
CMD_WRITE_SPC == B(<<"W">>)
CMD_READ_SPC == B(<<"R">>)

(***************************************************************************)
(* The code tables.                                                        *)
(***************************************************************************)
DISPLAY_MODE ==
    ("auto" :> B(<<"A">>)) @@ ("flash" :> B(<<"B">>)) @@ ("hold" :> B(<<"C">>)) @@
    ("interlock" :> B(<<"D">>)) @@ ("rolldown" :> B(<<"E">>)) @@
    ("rollup" :> B(<<"F">>)) @@ ("rollin" :> B(<<"G">>)) @@
    ("rollleft" :> B(<<"I">>)) @@ ("rollright" :> B(<<"J">>)) @@
    ("rotate" :> B(<<"K">>)) @@ ("slide" :> B(<<"L">>)) @@ ("snow" :> B(<<"M">>)) @@
    ("sparkle" :> B(<<"N">>)) @@ ("spray" :> B(<<"O">>)) @@
    ("starburst" :> B(<<"P">>)) @@ ("switch" :> B(<<"Q">>)) @@
    ("twinkle" :> B(<<"R">>)) @@ ("wipedown" :> B(<<"S">>)) @@
    ("wipeup" :> B(<<"T">>)) @@ ("wipein" :> B(<<"U">>)) @@
    ("wipeout" :> B(<<"V">>)) @@ ("wipeleft" :> B(<<"W">>)) @@
    ("wiperight" :> B(<<"X">>)) @@ ("cyclecolor" :> B(<<"Y">>)) @@
    ("clock" :> B(<<"Z">>))

DISPLAY_SPEED ==
    ("faster" :> B(<<"0">>)) @@ ("fast" :> B(<<"1">>)) @@ ("normal" :> B(<<"2">>)) @@
    ("slow" :> B(<<"3">>)) @@ ("slower" :> B(<<"4">>))

ALIGN ==
    ("left" :> B(<<"1">>)) @@ ("right" :> B(<<"2">>)) @@ ("center" :> B(<<"3">>))

FONT ==
    ("SS5" :> B(<<"A">>)) @@ ("ST5" :> B(<<"B">>)) @@ ("WD5" :> B(<<"C">>)) @@
    ("WS5" :> B(<<"D">>)) @@ ("SS7" :> B(<<"E">>)) @@ ("ST7" :> B(<<"F">>)) @@
    ("WD7" :> B(<<"G">>)) @@ ("WS7" :> B(<<"H">>)) @@ ("SDS" :> B(<<"I">>)) @@
    ("SRF" :> B(<<"J">>)) @@ ("STF" :> B(<<"K">>)) @@ ("WDF" :> B(<<"L">>)) @@
    ("WSF" :> B(<<"M">>)) @@ ("SDF" :> B(<<"N">>)) @@ ("SS10" :> B(<<"O">>)) @@
    ("ST10" :> B(<<"P">>)) @@ ("WD10" :> B(<<"Q">>)) @@ ("WS10" :> B(<<"R">>)) @@
    ("SS15" :> B(<<"S">>)) @@ ("ST15" :> B(<<"T">>)) @@ ("WD15" :> B(<<"U">>)) @@
    ("WS15" :> B(<<"V">>)) @@ ("SS23" :> B(<<"W">>)) @@ ("SS31" :> B(<<"X">>)) @@
    ("SMALL" :> B(<<"@">>))

COLOR ==
    ("auto" :> B(<<"A">>)) @@ ("lightred" :> B(<<"B">>)) @@
    ("lightgreen" :> B(<<"C">>)) @@ ("red" :> B(<<"D">>)) @@ ("green" :> B(<<"E">>)) @@
    ("yellow" :> B(<<"F">>)) @@ ("brown" :> B(<<"G">>)) @@ ("amber" :> B(<<"H">>)) @@
    ("orange" :> B(<<"I">>)) @@ ("mix1" :> B(<<"J">>)) @@ ("mix2" :> B(<<"K">>)) @@
    ("mixh" :> B(<<"L">>)) @@ ("black" :> B(<<"M">>))

SYMBOLS ==
    ("sunburst" :> <<208>>) @@ ("clock" :> <<209>>) @@ ("telephone" :> <<210>>) @@
    ("sunglasses" :> <<211>>) @@ ("faucet" :> <<212>>) @@ ("bug" :> <<213>>) @@
    ("key" :> <<214>>) @@ ("shirt" :> <<215>>) @@ ("helicopter" :> <<216>>) @@
    ("car" :> <<217>>) @@ ("lantern" :> <<218>>) @@ ("pyramid" :> <<219>>) @@
    ("whale" :> <<220>>) @@ ("scooter" :> <<221>>) @@ ("bicycle" :> <<222>>) @@
    ("crown" :> <<223>>) @@ ("dheart" :> <<224>>) @@ ("rarrow" :> <<225>>) @@
    ("larrow" :> <<226>>) @@ ("ldarrow" :> <<227>>) @@ ("luarrow" :> <<228>>) @@
    ("gas" :> <<229>>) @@ ("chair" :> <<230>>) @@ ("shoe" :> <<231>>) @@
    ("martini" :> <<232>>) @@ ("envelope" :> <<233>>) @@ ("hamburger" :> <<234>>)

\* the class attributes with "rollin" given the code of "rollup"
ClassTables_dup ==
    [DISPLAY_MODE |-> [DISPLAY_MODE EXCEPT !["rollin"] = B(<<"F">>)],
     DISPLAY_SPEED |-> DISPLAY_SPEED, ALIGN |-> ALIGN,
     FONT |-> FONT, COLOR |-> COLOR, SYMBOLS |-> SYMBOLS]

\* the class attributes as one value
ClassTables ==
    [DISPLAY_MODE |-> DISPLAY_MODE, DISPLAY_SPEED |-> DISPLAY_SPEED, ALIGN |-> ALIGN,
     FONT |-> FONT, COLOR |-> COLOR, SYMBOLS |-> SYMBOLS]

(***************************************************************************)
(* Inputs.                                                                 *)
(***************************************************************************)
\* the byte values payloads are enumerated over: 'A' and '5'
PayloadBytes == {Ord("A"), Ord("5")}

\* every payload over PayloadBytes of length 0..MaxDataLen
Payloads == UNION {[1..n -> PayloadBytes] : n \in 0..MaxDataLen}

\* LongLen bytes 0xFF followed by 'B': with LongLen = 257 its bytes sum to 0x10041
LongMesg == [i \in 1..(LongLen + 1) |-> IF i <= LongLen THEN 255 ELSE Ord("B")]

Mesgs == Payloads \cup {LongMesg}

\* addresses: the two defaults, another 2-byte address, and a 3-byte one
SdrValues == {B(<<"F", "F">>), B(<<"0", "1">>)}
RcvValues == {B(<<"0", "0">>), B(<<"0", "1", "2">>)}
\* display modes: 1 byte, 2 bytes, empty
ModeValues == {B(<<"A">>), B(<<"A", "B">>), <<>>}
SpeedValues == {B(<<"2">>), B(<<"0">>)}
AlignValues == {B(<<"3">>), B(<<"1">>)}

\* YYYYMMDDHHMMSSW values
ClockValues == {B(<<"2", "0", "2", "4", "0", "3", "1", "5", "0", "9", "3", "0", "0", "0", "5">>),
                B(<<"2", "0", "2", "4", "0", "3", "1", "5", "0", "9", "3", "0", "0", "1", "5">>)}
PasswdValues == {B(<<"A", "B", "C", "1", "2", "3">>)}
DevNumValues == {B(<<"0", "1">>), B(<<"F", "E">>)}
DisplayTimesValues == {B(<<"0", "0", "0", "0", "2", "4", "0", "0">>)}
DisplayModeArgs == {B(<<"A">>), B(<<"T">>)}
OnOffValues == {B(<<"1">>), B(<<"0">>)}
BrightnessValues == {B(<<"A">>), B(<<"5">>)}
VarValues == {B(<<"A">>), B(<<"K">>)}
AttrValues == {B(<<"0">>)}
GfxAttrValues == {B(<<"0", "7", ":", "0", "5">>)}
SpecialValues == {B(<<"L">>), B(<<"P", "5">>)}
\* data of the variable and graphics commands
DataValues == {<<>>, B(<<"B", "D">>)}

(***************************************************************************)
(* Return values.                                                          *)
(***************************************************************************)
None == [kind |-> "None", val |-> <<>>]
Bytes(v) == [kind |-> "bytes", val |-> v]
Raised(e) == [kind |-> e, val |-> <<>>]

Called(op, args) == [op |-> op, args |-> args]

(***************************************************************************)
(* checksum                                                                *)
(***************************************************************************)
RECURSIVE SumRange(_, _, _)
\* s[lo] + ... + s[hi], of unbounded integers, added by halves to keep the
\* evaluation shallow
SumRange(s, lo, hi) ==
    IF lo > hi THEN 0
    ELSE IF lo = hi THEN s[lo]
    ELSE LET mid == (lo + hi) \div 2
         IN  SumRange(s, lo, mid) + SumRange(s, mid + 1, hi)

\* sum(bytearray(mesg))
sum(mesg) == SumRange(mesg, 1, Len(mesg))

\* the character of one hexadecimal digit, uppercase
HexChar(d) == IF d < 10 THEN Ord("0") + d ELSE Ord("A") + (d - 10)

RECURSIVE ToHex(_)
\* format type 'X': the uppercase hexadecimal digits of val, no leading zeros
ToHex(val) == IF val < 16 THEN <<HexChar(val)>>
              ELSE ToHex(val \div 16) \o <<HexChar(val % 16)>>

\* '{:04X}'.format(val): zero-padded up to a MINIMUM width of 4
Format04X(val) ==
    LET d == ToHex(val)
    IN  IF Len(d) >= 4 THEN d
        ELSE [i \in 1..(4 - Len(d)) |-> Ord("0")] \o d

checksum(mesg) == Format04X(sum(mesg))

(***************************************************************************)
(* __init__                                                                *)
(***************************************************************************)
Init ==
    \E s \in SdrValues, r \in RcvValues :
        /\ sdr_addr = s
        /\ rcv_addr = r
        /\ filename = B(<<"A">>)
        /\ display_mode = B(<<"A">>)
        /\ display_speed = B(<<"2">>)
        /\ pause_time = B(<<"2">>)
        /\ show_date = B(<<"7", "F">>)
        /\ start_time = B(<<"0", "0", "0", "0">>)
        /\ stop_time = B(<<"2", "4", "0", "0">>)
        /\ prep = B(<<"0", "0", "0">>)
        /\ align = B(<<"3">>)
        /\ header = <<NUL, NUL, NUL, NUL, NUL>>
        /\ tables = ClassTables
        /\ call = Called("__init__", <<s, r>>)
        /\ result = None
        /\ passed = [sdr_addr |-> s, rcv_addr |-> r, display_mode |-> B(<<"A">>),
                     display_speed |-> B(<<"2">>), align |-> B(<<"3">>)]
        /\ fresh = TRUE
        /\ repeat = FALSE

(***************************************************************************)
(* The setters: the assignment each method makes.                          *)
(***************************************************************************)
set_sdr_addr(sender) ==
    /\ sdr_addr' = sender
    /\ UNCHANGED <<rcv_addr, filename, display_mode, display_speed, pause_time,
                   show_date, start_time, stop_time, prep, align, header>>

set_rcv_addr(receiver) ==
    /\ rcv_addr' = receiver
    /\ UNCHANGED <<sdr_addr, filename, display_mode, display_speed, pause_time,
                   show_date, start_time, stop_time, prep, align, header>>

set_text_mode(mode) ==
    /\ display_mode' = mode
    /\ UNCHANGED <<sdr_addr, rcv_addr, filename, display_speed, pause_time,
                   show_date, start_time, stop_time, prep, align, header>>

\* set_text_speed assigning display_mode, the field of the method above it
set_text_speed_mode(speed) ==
    /\ display_mode' = speed
    /\ UNCHANGED <<sdr_addr, rcv_addr, filename, display_speed, pause_time,
                   show_date, start_time, stop_time, prep, align, header>>

set_text_speed(speed) ==
    /\ display_speed' = speed
    /\ UNCHANGED <<sdr_addr, rcv_addr, filename, display_mode, pause_time,
                   show_date, start_time, stop_time, prep, align, header>>

set_text_align(a) ==
    /\ align' = a
    /\ UNCHANGED <<sdr_addr, rcv_addr, filename, display_mode, display_speed,
                   pause_time, show_date, start_time, stop_time, prep, header>>

(***************************************************************************)
(* The frame builder and the command encoders: the value each returns.     *)
(***************************************************************************)
\* protocol with the two addresses in the other order
protocol_swapped(mesg) ==
    header \o <<SOH>> \o rcv_addr \o sdr_addr \o mesg \o checksum(mesg) \o <<EOT>>

protocol(mesg) ==
    header \o <<SOH>> \o sdr_addr \o rcv_addr \o mesg \o checksum(mesg) \o <<EOT>>

\* cmd_txt with display_speed before display_mode
cmd_txt_swapped(data) ==
    protocol(<<STX>> \o CMD_WRITE_TXT \o filename \o display_speed \o display_mode
             \o pause_time \o show_date \o start_time \o stop_time \o prep
             \o align \o data \o <<ETX>>)

cmd_txt(data) ==
    protocol(<<STX>> \o CMD_WRITE_TXT \o filename \o display_mode \o display_speed
             \o pause_time \o show_date \o start_time \o stop_time \o prep
             \o align \o data \o <<ETX>>)

cmd_var(var, attr, data) ==
    protocol(<<STX>> \o CMD_WRITE_VAR \o var \o attr \o data \o <<ETX>>)

cmd_gfx(attr, data) ==
    protocol(<<STX>> \o CMD_WRITE_GFX \o filename \o attr \o data \o <<ETX>>)

cmd_write_special(data) ==
    protocol(<<STX>> \o CMD_WRITE_SPC \o data \o <<ETX>>)

cmd_read_special(data) ==
    protocol(<<STX>> \o CMD_READ_SPC \o data \o <<ETX>>)

(***************************************************************************)
(* The special-function operations: the value each returns.                *)
(***************************************************************************)
clear == cmd_write_special(B(<<"L">>))

reset == cmd_write_special(B(<<"B">>))

clock(datetimeweek) == cmd_write_special(B(<<"A">>) \o datetimeweek)

\* strftime("%Y%m%d%H%M%S%w") is the local time `now`, 15 digits
clock_sync(now) == clock(now)

passwd(pw) == cmd_write_special(B(<<"C">>) \o pw)

set_dev_num(num) == cmd_write_special(B(<<"D">>) \o num)

set_display_times(display_times) == cmd_write_special(B(<<"E">>) \o display_times)

\* b'F' + display_mode: the parameter is display_time, and no local, global or
\* builtin is named display_mode, so evaluating the operand raises NameError
\* before cmd_write_special is called
set_display_mode(display_time) == Raised("NameError")

\* set_cue_voice with the subcommand code of set_passwd_mode
set_cue_voice_K(cue) == cmd_write_special(B(<<"K">>) \o cue)

set_cue_voice(cue) == cmd_write_special(B(<<"J">>) \o cue)

set_passwd_mode(mode) == cmd_write_special(B(<<"K">>) \o mode)

set_brightness(level) == cmd_write_special(B(<<"P">>) \o level)

(***************************************************************************)
(* One action per method call.                                             *)
(***************************************************************************)
\* the call and what it returned are recorded; no method assigns a class table
Noted(op, args, value) ==
    /\ call' = Called(op, args)
    /\ result' = value
    /\ repeat' = (call = Called(op, args))
    /\ UNCHANGED tables

\* a method that assigns no field
Returns(op, args, value) ==
    /\ Noted(op, args, value)
    /\ UNCHANGED <<sdr_addr, rcv_addr, filename, display_mode, display_speed,
                   pause_time, show_date, start_time, stop_time, prep, align,
                   header, passed, fresh>>

Checksum ==
    \E mesg \in Mesgs : Returns("checksum", <<mesg>>, Bytes(checksum(mesg)))

SetSdrAddr ==
    \E sender \in SdrValues :
        /\ set_sdr_addr(sender)
        /\ Noted("set_sdr_addr", <<sender>>, None)
        /\ passed' = [passed EXCEPT !.sdr_addr = sender]
        /\ fresh' = FALSE

SetRcvAddr ==
    \E receiver \in RcvValues :
        /\ set_rcv_addr(receiver)
        /\ Noted("set_rcv_addr", <<receiver>>, None)
        /\ passed' = [passed EXCEPT !.rcv_addr = receiver]
        /\ fresh' = FALSE

SetTextMode ==
    \E mode \in ModeValues :
        /\ set_text_mode(mode)
        /\ Noted("set_text_mode", <<mode>>, None)
        /\ passed' = [passed EXCEPT !.display_mode = mode]
        /\ fresh' = FALSE

SetTextSpeed ==
    \E speed \in SpeedValues :
        /\ set_text_speed(speed)
        /\ Noted("set_text_speed", <<speed>>, None)
        /\ passed' = [passed EXCEPT !.display_speed = speed]
        /\ fresh' = FALSE

SetTextAlign ==
    \E a \in AlignValues :
        /\ set_text_align(a)
        /\ Noted("set_text_align", <<a>>, None)
        /\ passed' = [passed EXCEPT !.align = a]
        /\ fresh' = FALSE

Protocol ==
    \E mesg \in Mesgs : Returns("protocol", <<mesg>>, Bytes(protocol(mesg)))

CmdTxt ==
    \E data \in Mesgs : Returns("cmd_txt", <<data>>, Bytes(cmd_txt(data)))

CmdVar ==
    \E var \in VarValues, attr \in AttrValues, data \in DataValues :
        Returns("cmd_var", <<var, attr, data>>, Bytes(cmd_var(var, attr, data)))

\* cmd_gfx moving the session on to the next file slot after encoding
CmdGfx_next_slot ==
    \E attr \in GfxAttrValues, data \in DataValues :
        /\ Noted("cmd_gfx", <<attr, data>>, Bytes(cmd_gfx(attr, data)))
        /\ filename' = <<filename[1] + 1>>
        /\ UNCHANGED <<sdr_addr, rcv_addr, display_mode, display_speed,
                       pause_time, show_date, start_time, stop_time, prep, align,
                       header, passed, fresh>>

CmdGfx ==
    \E attr \in GfxAttrValues, data \in DataValues :
        Returns("cmd_gfx", <<attr, data>>, Bytes(cmd_gfx(attr, data)))

CmdWriteSpecial ==
    \E data \in SpecialValues :
        Returns("cmd_write_special", <<data>>, Bytes(cmd_write_special(data)))

CmdReadSpecial ==
    \E data \in SpecialValues :
        Returns("cmd_read_special", <<data>>, Bytes(cmd_read_special(data)))

Clear == Returns("clear", <<>>, Bytes(clear))

Reset == Returns("reset", <<>>, Bytes(reset))

Clock ==
    \E datetimeweek \in ClockValues :
        Returns("clock", <<datetimeweek>>, Bytes(clock(datetimeweek)))

\* the local time is whatever the host's clock says at the call
ClockSync ==
    \E now \in ClockValues : Returns("clock_sync", <<>>, Bytes(clock_sync(now)))

Passwd ==
    \E pw \in PasswdValues : Returns("passwd", <<pw>>, Bytes(passwd(pw)))

SetDevNum ==
    \E num \in DevNumValues : Returns("set_dev_num", <<num>>, Bytes(set_dev_num(num)))

SetDisplayTimes ==
    \E display_times \in DisplayTimesValues :
        Returns("set_display_times", <<display_times>>,
                Bytes(set_display_times(display_times)))

SetDisplayMode ==
    \E display_time \in DisplayModeArgs :
        Returns("set_display_mode", <<display_time>>, set_display_mode(display_time))

SetCueVoice ==
    \E cue \in OnOffValues : Returns("set_cue_voice", <<cue>>, Bytes(set_cue_voice(cue)))

SetPasswdMode ==
    \E mode \in OnOffValues :
        Returns("set_passwd_mode", <<mode>>, Bytes(set_passwd_mode(mode)))

SetBrightness ==
    \E level \in BrightnessValues :
        Returns("set_brightness", <<level>>, Bytes(set_brightness(level)))

Next ==
    \/ Checksum
    \/ SetSdrAddr
    \/ SetRcvAddr
    \/ SetTextMode
    \/ SetTextSpeed
    \/ SetTextAlign
    \/ Protocol
    \/ CmdTxt
    \/ CmdVar
    \/ CmdGfx
    \/ CmdWriteSpecial
    \/ CmdReadSpecial
    \/ Clear
    \/ Reset
    \/ Clock
    \/ ClockSync
    \/ Passwd
    \/ SetDevNum
    \/ SetDisplayTimes
    \/ SetDisplayMode
    \/ SetCueVoice
    \/ SetPasswdMode
    \/ SetBrightness

Spec == Init /\ [][Next]_vars

(***************************************************************************)
(* Reading a frame back.                                                   *)
(***************************************************************************)
\* every byte of s is one of '0'..'9', 'A'..'F'
IsUpperHex(s) ==
    \A i \in 1..Len(s) : s[i] \in (Ord("0")..Ord("9")) \cup (Ord("A")..Ord("F"))

RECURSIVE HexValue(_)
\* the number a string of uppercase hexadecimal digits denotes
HexValue(s) ==
    IF s = <<>> THEN 0
    ELSE LET c == s[Len(s)]
             d == IF c <= Ord("9") THEN c - Ord("0") ELSE 10 + (c - Ord("A"))
         IN  16 * HexValue(SubSeq(s, 1, Len(s) - 1)) + d

\* the bytes of frame f between the body and the final byte, for a body of m
\* bytes behind the session's current addresses
ChecksumField(f, m) == SubSeq(f, 7 + Len(sdr_addr) + Len(rcv_addr) + m, Len(f) - 1)

\* f is, in this order and with nothing else: five NUL bytes, SOH, the current
\* sender address, the current receiver address, body, the zero-padded
\* uppercase hexadecimal sum of body's bytes, EOT
IsFrameOf(f, body) ==
    LET a == Len(sdr_addr)
        b == Len(rcv_addr)
        m == Len(body)
        ck == ChecksumField(f, m)
    IN  /\ Len(f) >= 6 + a + b + m + 4 + 1
        /\ SubSeq(f, 1, 5) = <<0, 0, 0, 0, 0>>
        /\ f[6] = 1
        /\ SubSeq(f, 7, 6 + a) = sdr_addr
        /\ SubSeq(f, 7 + a, 6 + a + b) = rcv_addr
        /\ SubSeq(f, 7 + a + b, 6 + a + b + m) = body
        /\ IsUpperHex(ck)
        /\ Len(ck) > 4 => ck[1] # Ord("0")
        /\ HexValue(ck) = SumRange(body, 1, m)
        /\ f[Len(f)] = 4

\* the argument of the most recent call, empty when it took none
Arg == IF call.args = <<>> THEN <<>> ELSE call.args[1]

(***************************************************************************)
(* C1: for every body, checksum(body) is exactly 4 characters, each an     *)
(* uppercase hexadecimal digit, also when the byte sum exceeds 0xFFFF.     *)
(***************************************************************************)
C1_ChecksumFourHexDigits ==
    call.op = "checksum" =>
        /\ result.kind = "bytes"
        /\ Len(result.val) = 4
        /\ IsUpperHex(result.val)

(***************************************************************************)
(* C2: with 2-byte sender and receiver addresses, protocol(body) returns a *)
(* frame of exactly 15 + len(body) bytes.                                  *)
(***************************************************************************)
C2_FrameLength ==
    (call.op = "protocol" /\ Len(sdr_addr) = 2 /\ Len(rcv_addr) = 2) =>
        Len(result.val) = 15 + Len(Arg)

(***************************************************************************)
(* C3: protocol(body) is five 0x00 bytes, SOH, the sender address, the     *)
(* receiver address, the body unchanged, the checksum and EOT, in this     *)
(* order and nothing else; the checksum field is the zero-padded uppercase *)
(* hexadecimal sum of the body's bytes only (so it does not depend on the  *)
(* addresses), and a body summing to 0x41 gives "0041".                    *)
(***************************************************************************)
C3_ProtocolLayout ==
    call.op = "protocol" =>
        /\ result.kind = "bytes"
        /\ IsFrameOf(result.val, Arg)
        /\ SumRange(Arg, 1, Len(Arg)) = 65 =>
               ChecksumField(result.val, Len(Arg)) = <<48, 48, 52, 49>>

C3_Witness ==
    /\ call.op = "protocol"
    /\ Arg = <<65>>
    /\ sdr_addr # B(<<"F", "F">>)
    /\ rcv_addr # B(<<"0", "0">>)
    /\ result.kind = "bytes"

(***************************************************************************)
(* C4: cmd_txt(data) frames the body STX, 'A', filename, display_mode,     *)
(* display_speed, pause_time, show_date, start_time, stop_time, prep,      *)
(* align, data, ETX built from the session's current fields; on a fresh    *)
(* session the 18 fixed bytes are A A 2 2 7F 0000 2400 000 3, and with     *)
(* empty data the body is exactly the 21 bytes STX, 'A', those 18, ETX.    *)
(***************************************************************************)
C4_CmdTxtLayout ==
    call.op = "cmd_txt" =>
        /\ result.kind = "bytes"
        /\ IsFrameOf(result.val,
                     <<2, 65>> \o filename \o display_mode \o display_speed
                     \o pause_time \o show_date \o start_time \o stop_time
                     \o prep \o align \o Arg \o <<3>>)
        /\ fresh =>
               IsFrameOf(result.val,
                         <<2, 65, 65, 65, 50, 50, 55, 70, 48, 48, 48, 48,
                           50, 52, 48, 48, 48, 48, 48, 51>> \o Arg \o <<3>>)
        /\ (fresh /\ Arg = <<>>) =>
               Len(result.val) = 6 + Len(sdr_addr) + Len(rcv_addr) + 21 + 4 + 1

C4_Witness ==
    /\ call.op = "cmd_txt"
    /\ fresh
    /\ Arg = <<>>
    /\ result.kind = "bytes"

(***************************************************************************)
(* C5: clear, reset, clock, passwd, set_dev_num, set_display_times,        *)
(* set_cue_voice, set_passwd_mode and set_brightness each return the frame *)
(* of STX, 'W', the subcommand code (L, B, A, C, D, E, J, K, P), the       *)
(* caller's payload unchanged (none for clear and reset), ETX; clear() on  *)
(* a session with the default addresses is that frame for STX 'W' 'L' ETX  *)
(* with addresses "FF" and "00".                                           *)
(***************************************************************************)
C5_SubCode ==
    [clear |-> "L", reset |-> "B", clock |-> "A", passwd |-> "C",
     set_dev_num |-> "D", set_display_times |-> "E", set_cue_voice |-> "J",
     set_passwd_mode |-> "K", set_brightness |-> "P"]

C5_SpecialFunctions ==
    /\ call.op \in DOMAIN C5_SubCode =>
           /\ result.kind = "bytes"
           /\ IsFrameOf(result.val,
                        <<2, 87, Ord(C5_SubCode[call.op])>> \o Arg \o <<3>>)
           /\ call.op \in {"clear", "reset"} => call.args = <<>>
    /\ (call.op = "clear" /\ sdr_addr = <<70, 70>> /\ rcv_addr = <<48, 48>>) =>
           result.val = <<0, 0, 0, 0, 0, 1, 70, 70, 48, 48,
                          2, 87, 76, 3, 48, 48, 65, 56, 4>>

C5_Witness ==
    /\ call.op = "set_brightness"
    /\ Arg = <<53>>
    /\ result.kind = "bytes"

(***************************************************************************)
(* C6: set_display_mode(x), x one byte, returns the frame of STX, 'W',     *)
(* 'F', x, ETX: the call completes with a frame rather than an error.      *)
(***************************************************************************)
C6_SetDisplayModeFrame ==
    call.op = "set_display_mode" =>
        /\ result.kind = "bytes"
        /\ IsFrameOf(result.val, <<2, 87, 70>> \o Arg \o <<3>>)

(***************************************************************************)
(* C7: in each of the six code tables every name maps to a code of exactly *)
(* one byte and no two names of a table map to the same byte; no operation *)
(* changes a table.                                                        *)
(***************************************************************************)
C7_TablesInjective ==
    /\ DOMAIN tables = {"DISPLAY_MODE", "DISPLAY_SPEED", "ALIGN", "FONT",
                        "COLOR", "SYMBOLS"}
    /\ \A t \in DOMAIN tables :
           /\ \A n \in DOMAIN tables[t] :
                  /\ Len(tables[t][n]) = 1
                  /\ tables[t][n][1] \in 0..255
           /\ \A n1, n2 \in DOMAIN tables[t] :
                  n1 # n2 => tables[t][n1] # tables[t][n2]
    /\ Cardinality(DOMAIN tables["DISPLAY_MODE"]) = 25
    /\ Cardinality(DOMAIN tables["DISPLAY_SPEED"]) = 5
    /\ Cardinality(DOMAIN tables["ALIGN"]) = 3
    /\ Cardinality(DOMAIN tables["FONT"]) = 25
    /\ Cardinality(DOMAIN tables["COLOR"]) = 13
    /\ Cardinality(DOMAIN tables["SYMBOLS"]) = 27

C7_Witness ==
    /\ call.op = "cmd_txt"
    /\ ~fresh
    /\ repeat
    /\ tables["SYMBOLS"]["hamburger"] = <<234>>

(***************************************************************************)
(* C8: a field or address of fixed width w holding a value of length k is  *)
(* never rejected: cmd_txt still returns a frame of the usual shape whose  *)
(* length differs from the well-formed length, 36 + len(data), by exactly  *)
(* k - w.                                                                  *)
(***************************************************************************)
C8_WrongWidthShiftsLength ==
    call.op = "cmd_txt" =>
        /\ result.kind = "bytes"
        /\ SubSeq(result.val, 1, 6) = <<0, 0, 0, 0, 0, 1>>
        /\ result.val[Len(result.val)] = 4
        /\ Len(result.val) = 36 + Len(Arg)
                             + (Len(sdr_addr) - 2) + (Len(rcv_addr) - 2)
                             + (Len(display_mode) - 1) + (Len(display_speed) - 1)
                             + (Len(align) - 1)

(***************************************************************************)
(* C9: no frame-building operation changes the session: after checksum,    *)
(* protocol, a cmd_* encoder or a special-function operation every session *)
(* field and the header are unchanged, and the same call made again on the *)
(* same session returns the same bytes.  (clock_sync takes its payload     *)
(* from the host clock, so only the first half is stated of it.)           *)
(***************************************************************************)
C9_FrameOps ==
    {"checksum", "protocol", "cmd_txt", "cmd_var", "cmd_gfx", "cmd_write_special",
     "cmd_read_special", "clear", "reset", "clock", "clock_sync", "passwd",
     "set_dev_num", "set_display_times", "set_display_mode", "set_cue_voice",
     "set_passwd_mode", "set_brightness"}

=============================================================================
